---- MODULE Spec2Model ----
(***************************************************************************)
(* Model of src/minesweeper.py: the knowledge base of MinesweeperAI        *)
(* (Sentence, mark_mine / mark_safe, checkNewInformation, conclud,         *)
(* concludNewInformation, clean, add_knowledge) and its move selectors     *)
(* (make_safe_move, make_random_move), driven by the counts of a fixed     *)
(* Minesweeper board.                                                      *)
(*                                                                         *)
(* A cell is a pair <<i, j>> with 0-based coordinates, as in the source.   *)
(* A Sentence is a record [cells, count]; the knowledge list is a sequence *)
(* of Sentences whose positions stand for the identities of the Python     *)
(* objects (position p here is index p-1 of the Python list).  The fields  *)
(* Sentence.safes and Sentence.mines are written but never read by the     *)
(* program (not even by __eq__), so they are not part of the record.       *)
(***************************************************************************)
EXTENDS Integers, Sequences, FiniteSets

VARIABLES
    height, width,  \* MinesweeperAI.height / width (same as the board's)
    board,          \* Minesweeper.board: the set of cells holding a mine
    moves_made,     \* MinesweeperAI.moves_made
    mines,          \* MinesweeperAI.mines
    safes,          \* MinesweeperAI.safes
    knowledge,      \* MinesweeperAI.knowledge
    pc,             \* position of the running call
    i, n,           \* concludNewInformation: outer index and its range bound
    j, m,           \* concludNewInformation: inner index and its range bound
    temp, kind,     \* markAllSafe / markAllMines: cells of the snapshot still to mark
    idx,            \* clean: position of the list iterator
    move,           \* make_random_move: the current sample
    ret, op,        \* value returned by the last move selector, last operation called
    calls,          \* number of add_knowledge calls so far
    passStart,      \* knowledge as it stood when the running closure pass started
    lastCell,       \* the cell passed to the last add_knowledge call
    applied,        \* the index pairs <<i, j>> conclud was called with in the running pass
    atCall,         \* knowledge as it stood when the running add_knowledge was called
    shadow          \* the knowledge base of the same calls run without conclud

vars == <<height, width, board, moves_made, mines, safes, knowledge, pc, i, n,
          j, m, temp, kind, idx, move, ret, op, calls, passStart,
          lastCell, applied, atCall, shadow>>

\* the variables that record the history of the run
hist == <<lastCell, applied, atCall, shadow>>

kb == <<moves_made, mines, safes, knowledge>>

\* Bounds of the exploration.
MaxCalls == 2
MaxMines == 3
\* Bound on add_knowledge calls of the deeper exploration (DeepSpec).
MaxCallsDeep == 3

\* Board shapes explored: <<height, width>>.
Dims == {<<1, 4>>, <<2, 2>>, <<3, 3>>}

\* Python's None.
None == << >>

Cells == (0 .. height - 1) \X (0 .. width - 1)

\* Sentence.__init__
Sentence(cells, count) == [cells |-> cells, count |-> count]

\* Sentence.__len__
SentenceLen(s) == Cardinality(s.cells)

\* Sentence.mark_mine without "if cell not in self.cells: return"
SentenceMarkMine_NoGuard(s, cell) ==
    [cells |-> s.cells \ {cell}, count |-> s.count - 1]

\* Sentence.mark_mine
SentenceMarkMine(s, cell) ==
    IF cell \notin s.cells THEN s
    ELSE [cells |-> s.cells \ {cell}, count |-> s.count - 1]

\* Sentence.mark_safe with the "self.count -= 1" of mark_mine
SentenceMarkSafe_Decrement(s, cell) ==
    IF cell \notin s.cells THEN s
    ELSE [cells |-> s.cells \ {cell}, count |-> s.count - 1]

\* Sentence.mark_safe
SentenceMarkSafe(s, cell) ==
    IF cell \notin s.cells THEN s
    ELSE [cells |-> s.cells \ {cell}, count |-> s.count]

\* the loop of MinesweeperAI.mark_mine over self.knowledge[1:]
BroadcastMine_SkipFirst(k, cell) ==
    [p \in 1 .. Len(k) |-> IF p = 1 THEN k[p] ELSE SentenceMarkMine(k[p], cell)]

\* the loop of MinesweeperAI.mark_mine over self.knowledge
BroadcastMine(k, cell) == [p \in 1 .. Len(k) |-> SentenceMarkMine(k[p], cell)]

\* the loop of MinesweeperAI.mark_safe over self.knowledge
BroadcastSafe(k, cell) == [p \in 1 .. Len(k) |-> SentenceMarkSafe(k[p], cell)]

\* MinesweeperAI.mark_mine with "self.mines = {cell}" for "self.mines.add(cell)"
mark_mine_Replace(cell) ==
    [mines |-> {cell}, knowledge |-> BroadcastMine(knowledge, cell)]

\* MinesweeperAI.mark_mine: the new values of self.mines and self.knowledge
mark_mine(cell) ==
    [mines |-> mines \cup {cell}, knowledge |-> BroadcastMine(knowledge, cell)]

\* MinesweeperAI.mark_safe without "self.safes.add(cell)"
mark_safe_NoAdd(cell) ==
    [safes |-> safes, knowledge |-> BroadcastSafe(knowledge, cell)]

\* MinesweeperAI.mark_safe: the new values of self.safes and self.knowledge
mark_safe(cell) ==
    [safes |-> safes \cup {cell}, knowledge |-> BroadcastSafe(knowledge, cell)]

\* Minesweeper.nearby_mines
nearby_mines(cell) ==
    Cardinality({c \in (cell[1] - 1 .. cell[1] + 1) \X (cell[2] - 1 .. cell[2] + 1) :
                    /\ c # cell
                    /\ 0 <= c[1] /\ c[1] < height /\ 0 <= c[2] /\ c[2] < width
                    /\ c \in board})

\* isValidNeighbor, local to MinesweeperAI.allCellsAround
isValidNeighbor(cell, neighbor) ==
    IF neighbor[1] < 0 \/ neighbor[2] < 0 THEN FALSE
    ELSE IF neighbor[1] = cell[1] /\ neighbor[2] = cell[2] THEN FALSE
    ELSE IF neighbor[1] >= height \/ neighbor[2] >= width THEN FALSE
    ELSE TRUE

\* MinesweeperAI.allCellsAround with range(-1,1) for range(-1,2)
allCellsAround_ShortRange(cell) ==
    {c \in (cell[1] - 1 .. cell[1]) \X (cell[2] - 1 .. cell[2]) :
        isValidNeighbor(cell, c)}

\* MinesweeperAI.allCellsAround
allCellsAround(cell) ==
    {c \in (cell[1] - 1 .. cell[1] + 1) \X (cell[2] - 1 .. cell[2] + 1) :
        isValidNeighbor(cell, c)}

\* MinesweeperAI.checkNewInformation without its elif branch
checkBranch_NoElif(s) ==
    IF s.count = 0 THEN "safe" ELSE "none"

\* MinesweeperAI.checkNewInformation: the branch taken for a sentence
checkBranch(s) ==
    IF s.count = 0 THEN "safe"
    ELSE IF SentenceLen(s) = s.count THEN "mine"
    ELSE "none"

\* self.knowledge.sort(key=len, reverse=True): stable, longest first
RECURSIVE SortFrom(_, _)
SortFrom(k, len) ==
    IF len < 0 THEN << >>
    ELSE SelectSeq(k, LAMBDA s : SentenceLen(s) = len) \o SortFrom(k, len - 1)

MaxLen(k) ==
    IF Len(k) = 0 THEN 0
    ELSE CHOOSE l \in {SentenceLen(k[p]) : p \in 1 .. Len(k)} :
            \A p \in 1 .. Len(k) : SentenceLen(k[p]) <= l

SortByLen(k) == SortFrom(k, MaxLen(k))

\* list.remove(x): drops the first element equal (Sentence.__eq__) to x
ListRemove(k, x) ==
    LET first == CHOOSE p \in 1 .. Len(k) :
                    k[p] = x /\ \A q \in 1 .. p - 1 : k[q] # x
    IN  [p \in 1 .. Len(k) - 1 |-> IF p < first THEN k[p] ELSE k[p + 1]]

\* MinesweeperAI.conclud subtracting the smaller sentence from the larger:
\* newCells = cells1 - cells2, newCount = count1 - count2
conclud_Swapped(k, a, b) ==
    LET cells1 == k[a].cells
        cells2 == k[b].cells
    IN  IF Cardinality(cells2) = 0 \/ ~(cells2 \subseteq cells1) THEN k
        ELSE Append(k, Sentence(cells1 \ cells2, k[a].count - k[b].count))

\* MinesweeperAI.conclud(knowledge[a], knowledge[b])
conclud(k, a, b) ==
    LET cells1 == k[a].cells
        cells2 == k[b].cells
    IN  IF Cardinality(cells2) = 0 \/ ~(cells2 \subseteq cells1) THEN k
        ELSE Append(k, Sentence(cells2 \ cells1, k[b].count - k[a].count))

\* the inner loop of concludNewInformation over range(i + 1, ...)
innerStart_Next(a) == a + 1

\* concludNewInformation: the first index of the inner loop, range(i, ...)
innerStart(a) == a

\* ---- the same procedure with conclud removed, on a knowledge base st ----
\* st is a record [moves_made, safes, mines, knowledge].

\* MinesweeperAI.mark_safe on st
NCMarkSafe(st, cell) ==
    [st EXCEPT !.safes = @ \cup {cell}, !.knowledge = BroadcastSafe(@, cell)]

\* MinesweeperAI.mark_mine on st
NCMarkMine(st, cell) ==
    [st EXCEPT !.mines = @ \cup {cell}, !.knowledge = BroadcastMine(@, cell)]

\* markAllSafe / markAllMines on st: the loop over the snapshot cs
RECURSIVE NCMarkAll(_, _, _)
NCMarkAll(st, cs, k) ==
    IF cs = {} THEN st
    ELSE LET c == CHOOSE x \in cs : TRUE
         IN  NCMarkAll(IF k = "safe" THEN NCMarkSafe(st, c) ELSE NCMarkMine(st, c),
                       cs \ {c}, k)

\* checkNewInformation(st.knowledge[a]) on st
NCCheck(st, a) ==
    LET k == checkBranch(st.knowledge[a])
    IN  IF k = "none" THEN st ELSE NCMarkAll(st, st.knowledge[a].cells, k)

\* the outer loop of concludNewInformation, without its inner loop
RECURSIVE NCPass(_, _, _)
NCPass(st, a, last) ==
    IF a > last THEN st ELSE NCPass(NCCheck(st, a), a + 1, last)

\* clean: the loop over the list it mutates, from iterator position a
RECURSIVE NCClean(_, _)
NCClean(k, a) ==
    IF a > Len(k) THEN k
    ELSE IF SentenceLen(k[a]) = 0 THEN NCClean(ListRemove(k, k[a]), a + 1)
    ELSE NCClean(k, a + 1)

\* add_knowledge(cell, count) on st, with conclud removed
NCAddKnowledge(st, cell, count) ==
    LET marked == NCMarkSafe([st EXCEPT !.moves_made = @ \cup {cell}], cell)
        k2 == Append(marked.knowledge, Sentence(allCellsAround(cell), count))
        k3 == SortByLen(k2)
        passed == NCPass([marked EXCEPT !.knowledge = k3], 1, Len(k3))
    IN  [passed EXCEPT !.knowledge = NCClean(@, 1)]

\* make_safe_move's candidates without "- self.moves_made"
SafeCandidates_AllSafes == safes

\* make_safe_move: safes = self.safes - self.moves_made
SafeCandidates == safes \ moves_made

\* the acceptance test without "move not in self.moves_made"
Acceptable_MinesOnly(c) == c \notin mines

\* the acceptance test of the loop of make_random_move
Acceptable(c) == c \notin mines /\ c \notin moves_made

----------------------------------------------------------------------------

Init ==
    /\ \E d \in Dims : height = d[1] /\ width = d[2]
    /\ board \in SUBSET ((0 .. height - 1) \X (0 .. width - 1))
    /\ Cardinality(board) <= MaxMines
    /\ moves_made = {} /\ mines = {} /\ safes = {}
    /\ knowledge = << >>
    /\ pc = "idle"
    /\ i = 0 /\ n = 0 /\ j = 0 /\ m = 0
    /\ temp = {} /\ kind = "none"
    /\ idx = 0
    /\ move = None /\ ret = None /\ op = "none"
    /\ calls = 0
    /\ passStart = << >>
    /\ lastCell = None
    /\ applied = {}
    /\ atCall = << >>
    /\ shadow = [moves_made |-> {}, safes |-> {}, mines |-> {},
                 knowledge |-> << >>]

\* add_knowledge(cell, count), up to and including the sort that opens
\* concludNewInformation; count is the board's count for the cell.
AddKnowledge(cell) ==
    /\ pc = "idle"
    /\ cell \in Cells \ board
    /\ LET count == nearby_mines(cell)
           marked == mark_safe(cell)
           k2 == Append(marked.knowledge, Sentence(allCellsAround(cell), count))
           k3 == SortByLen(k2)
       IN  /\ safes' = marked.safes
           /\ knowledge' = k3
           /\ passStart' = k3
           /\ n' = Len(k3)
           /\ shadow' = NCAddKnowledge(shadow, cell, count)
    /\ moves_made' = moves_made \cup {cell}
    /\ lastCell' = cell
    /\ applied' = {}
    /\ atCall' = knowledge
    /\ i' = 1
    /\ pc' = "check"
    /\ calls' = calls + 1
    /\ op' = "add_knowledge"
    /\ ret' = None
    /\ UNCHANGED <<height, width, board, mines, j, m, temp, kind, idx, move>>

\* checkNewInformation(self.knowledge[i]): the choice of the branch and the
\* snapshot temp = sentence.cells.copy()
CheckNewInformation ==
    /\ pc = "check"
    /\ kind' = checkBranch(knowledge[i])
    /\ temp' = IF kind' = "none" THEN {} ELSE knowledge[i].cells
    /\ pc' = "mark"
    /\ UNCHANGED <<height, width, board, moves_made, mines, safes, knowledge, i, n,
                   j, m, idx, move, ret, op, calls, passStart>>
    /\ UNCHANGED hist

\* one iteration of the loop of markAllSafe: self.mark_safe(cell)
MarkAllSafe ==
    /\ pc = "mark" /\ kind = "safe"
    /\ \E cell \in temp :
        /\ safes' = mark_safe(cell).safes
        /\ knowledge' = mark_safe(cell).knowledge
        /\ temp' = temp \ {cell}
    /\ UNCHANGED <<height, width, board, moves_made, mines, pc, i, n, j, m, kind,
                   idx, move, ret, op, calls, passStart>>
    /\ UNCHANGED hist

\* one iteration of the loop of markAllMines: self.mark_mine(cell)
MarkAllMines ==
    /\ pc = "mark" /\ kind = "mine"
    /\ \E cell \in temp :
        /\ mines' = mark_mine(cell).mines
        /\ knowledge' = mark_mine(cell).knowledge
        /\ temp' = temp \ {cell}
    /\ UNCHANGED <<height, width, board, moves_made, safes, pc, i, n, j, m, kind,
                   idx, move, ret, op, calls, passStart>>
    /\ UNCHANGED hist

\* checkNewInformation returns; the inner loop starts: range(i, len(self.knowledge))
MarkDone ==
    /\ pc = "mark" /\ temp = {}
    /\ kind' = "none"
    /\ j' = innerStart(i)
    /\ m' = Len(knowledge)
    /\ IF j' <= m'
       THEN pc' = "conclud" /\ UNCHANGED <<i, idx>>
       ELSE IF i < n
            THEN i' = i + 1 /\ pc' = "check" /\ UNCHANGED idx
            ELSE pc' = "clean" /\ idx' = 1 /\ UNCHANGED i
    /\ UNCHANGED <<height, width, board, moves_made, mines, safes, knowledge, n,
                   temp, move, ret, op, calls, passStart>>
    /\ UNCHANGED hist

\* one iteration of the inner loop of concludNewInformation, and the loops' exits
Conclud ==
    /\ pc = "conclud"
    /\ knowledge' = conclud(knowledge, i, j)
    /\ applied' = applied \cup {<<i, j>>}
    /\ UNCHANGED <<lastCell, atCall, shadow>>
    /\ IF j < m
       THEN j' = j + 1 /\ UNCHANGED <<pc, i, idx>>
       ELSE IF i < n
            THEN i' = i + 1 /\ pc' = "check" /\ UNCHANGED <<j, idx>>
            ELSE pc' = "clean" /\ idx' = 1 /\ UNCHANGED <<i, j>>
    /\ UNCHANGED <<height, width, board, moves_made, mines, safes, n, m, temp, kind,
                   move, ret, op, calls, passStart>>

\* one iteration of the loop of clean over the list it mutates, and the
\* return of clean and of add_knowledge when the iterator is exhausted
Clean ==
    /\ pc = "clean"
    /\ IF idx > Len(knowledge)
       THEN /\ pc' = "idle"
            /\ i' = 0 /\ n' = 0 /\ j' = 0 /\ m' = 0 /\ idx' = 0
            /\ applied' = {} /\ atCall' = << >>
            /\ UNCHANGED knowledge
       ELSE /\ IF SentenceLen(knowledge[idx]) = 0
               THEN knowledge' = ListRemove(knowledge, knowledge[idx])
               ELSE UNCHANGED knowledge
            /\ idx' = idx + 1
            /\ UNCHANGED <<pc, i, n, j, m, applied, atCall>>
    /\ UNCHANGED <<height, width, board, moves_made, mines, safes, temp, kind,
                   move, ret, op, calls, passStart, lastCell, shadow>>

\* make_safe_move
MakeSafeMove ==
    /\ pc = "idle"
    /\ IF Cardinality(SafeCandidates) > 0
       THEN \E c \in SafeCandidates : ret' = c
       ELSE ret' = None
    /\ op' = "make_safe_move"
    /\ UNCHANGED <<height, width, board, moves_made, mines, safes, knowledge, pc,
                   i, n, j, m, temp, kind, idx, move, calls, passStart>>
    /\ UNCHANGED hist

\* make_random_move: the guard and the first sample
MakeRandomMove ==
    /\ pc = "idle"
    /\ op' = "make_random_move"
    /\ ret' = None
    /\ IF Cardinality(safes) + Cardinality(mines) = height * width
       THEN UNCHANGED <<pc, move>>
       ELSE /\ pc' = "while"
            /\ \E a \in 0 .. height - 1 : \E b \in 0 .. width - 1 : move' = <<a, b>>
    /\ UNCHANGED <<height, width, board, moves_made, mines, safes, knowledge,
                   i, n, j, m, temp, kind, idx, calls, passStart>>
    /\ UNCHANGED hist

\* make_random_move: the test of the while loop, then a new sample or the return
RandomLoop ==
    /\ pc = "while"
    /\ IF ~Acceptable(move)
       THEN /\ \E a \in 0 .. height - 1 : \E b \in 0 .. width - 1 : move' = <<a, b>>
            /\ UNCHANGED <<pc, ret>>
       ELSE /\ ret' = move
            /\ move' = None
            /\ pc' = "idle"
    /\ UNCHANGED <<height, width, board, moves_made, mines, safes, knowledge,
                   i, n, j, m, temp, kind, idx, op, calls, passStart>>
    /\ UNCHANGED hist

\* One step of add_knowledge, with at most limit calls of it.
KBStep(limit) ==
    \/ \E cell \in Cells : calls < limit /\ AddKnowledge(cell)
    \/ CheckNewInformation
    \/ MarkAllSafe
    \/ MarkAllMines
    \/ MarkDone
    \/ Conclud
    \/ Clean

Next ==
    \/ KBStep(MaxCalls)
    \/ MakeSafeMove
    \/ MakeRandomMove
    \/ RandomLoop

Spec == Init /\ [][Next]_vars

\* The knowledge base explored one add_knowledge call deeper; the move
\* selectors, which change nothing of it, are left out.
NextDeep == KBStep(MaxCallsDeep)

DeepSpec == Init /\ [][NextDeep]_vars

\* Every cell of every explored board shape.
DimCells == UNION {(0 .. d[1] - 1) \X (0 .. d[2] - 1) : d \in Dims}

\* Fair sampling in make_random_move: a loop that keeps running draws every
\* cell again and again (random.randrange), and a call that can step does.
FairSpec ==
    /\ Spec
    /\ WF_vars(RandomLoop)
    /\ \A c \in DimCells : WF_vars(RandomLoop /\ move' = c)

----------------------------------------------------------------------------
\* States in which no closure pass is running: the last add_knowledge call,
\* if any, has returned.
Returned == pc \in {"idle", "while"}

\* The closure pass of the last add_knowledge call has ended.
PassEnded == pc \in {"clean", "idle", "while"}

\* C1: soundness of the knowledge base. With board-consistent observations,
\* every cell in safes is not a mine of the board and every cell in mines is
\* a mine of the board, in every state (between calls and inside them).
C1_Sound == safes \cap board = {} /\ mines \subseteq board

C1_Witness ==
    /\ pc = "idle" /\ calls = 2
    /\ mines # {} /\ safes \ moves_made # {}

\* C2: safes and mines are disjoint in every state, the intermediate states
\* of a closure pass included.
C2_Disjoint == safes \cap mines = {}

C2_Witness ==
    /\ pc = "mark" /\ temp # {}
    /\ mines # {} /\ safes \ moves_made # {}

\* C3: every Sentence of the knowledge list has 0 <= count <= |cells|, in
\* every state.
C3_CountInRange ==
    \A p \in 1 .. Len(knowledge) :
        0 <= knowledge[p].count /\ knowledge[p].count <= SentenceLen(knowledge[p])

\* C4: when clean() and add_knowledge have returned, no Sentence of the
\* knowledge list has an empty cell set.
C4_Pruned ==
    Returned => \A p \in 1 .. Len(knowledge) : knowledge[p].cells # {}

\* C5: when add_knowledge has returned, no cell of safes or mines is in the
\* cell set of a Sentence of the knowledge list.
C5_NoClassifiedCell ==
    Returned =>
        \A p \in 1 .. Len(knowledge) : knowledge[p].cells \cap (safes \cup mines) = {}

\* C6: every Sentence that has count 0 when a closure pass starts has all the
\* cells it had then in safes when the pass has ended; and on a 3x3 board,
\* after add_knowledge((1,1), 0) alone, the 8 neighbours of (1,1) are in safes.
C6_ZeroCountAllSafe ==
    /\ PassEnded =>
          \A p \in 1 .. Len(passStart) :
              passStart[p].count = 0 => passStart[p].cells \subseteq safes
    /\ (/\ height = 3 /\ width = 3 /\ Returned
        /\ calls = 1 /\ moves_made = {<<1, 1>>}
        /\ nearby_mines(<<1, 1>>) = 0)
          => (0 .. 2) \X (0 .. 2) \ {<<1, 1>>} \subseteq safes

C6_Witness ==
    /\ height = 3 /\ width = 3 /\ pc = "idle"
    /\ calls = 1 /\ moves_made = {<<1, 1>>}
    /\ Len(passStart) = 1 /\ passStart[1].count = 0
    /\ Cardinality(passStart[1].cells) = 8
    /\ Cardinality(safes) = 9

\* C7: every Sentence that has count = |cells| > 0 when a closure pass starts
\* has all the cells it had then in mines when the pass has ended; and on a
\* 2x2 board, after add_knowledge((0,0), 3) alone, (0,1), (1,0) and (1,1) are
\* in mines.
C7_FullCountAllMines ==
    /\ PassEnded =>
          \A p \in 1 .. Len(passStart) :
              (passStart[p].count = SentenceLen(passStart[p]) /\ passStart[p].count > 0)
                  => passStart[p].cells \subseteq mines
    /\ (/\ height = 2 /\ width = 2 /\ Returned
        /\ calls = 1 /\ moves_made = {<<0, 0>>}
        /\ nearby_mines(<<0, 0>>) = 3)
          => {<<0, 1>>, <<1, 0>>, <<1, 1>>} \subseteq mines

C7_Witness ==
    /\ height = 2 /\ width = 2 /\ pc = "idle"
    /\ calls = 1 /\ moves_made = {<<0, 0>>}
    /\ Len(passStart) = 1 /\ passStart[1].count = 3
    /\ mines = {<<0, 1>>, <<1, 0>>, <<1, 1>>}

\* C8: make_random_move never returns a cell of mines or of moves_made, and
\* it returns None if and only if |safes| + |mines| = height * width.
C8_RandomMove ==
    (pc = "idle" /\ op = "make_random_move") =>
        /\ ret # None => (ret \in Cells /\ ret \notin mines /\ ret \notin moves_made)
        /\ ret = None <=> Cardinality(safes) + Cardinality(mines) = height * width

C8_Witness ==
    /\ pc = "idle" /\ op = "make_random_move"
    /\ ret # None /\ mines # {} /\ moves_made # {}
    /\ Cardinality(safes) + Cardinality(mines) = height * width - 1

\* C9: in every state where |safes| + |mines| # height * width, some in-bounds
\* cell is in neither mines nor moves_made, so the loop of make_random_move
\* has an accepting sample; and under fair sampling a running
\* make_random_move eventually returns.
C9_RandomMoveTerminates ==
    /\ [](Cardinality(safes) + Cardinality(mines) # height * width
            => \E c \in Cells : c \notin mines /\ c \notin moves_made)
    /\ (pc = "while") ~> (pc = "idle")

C9_Witness ==
    /\ pc = "while" /\ ~Acceptable(move)
    /\ calls = 2 /\ mines # {}
    /\ Cardinality({c \in Cells : Acceptable(c)}) = 1

\* C10: make_safe_move returns a cell of safes - moves_made when that set is
\* not empty and None exactly when it is empty, and changes nothing of the
\* knowledge base.
C10_SafeMove ==
    [][(pc = "idle" /\ op' = "make_safe_move") =>
          /\ UNCHANGED kb
          /\ IF safes \ moves_made # {}
             THEN ret' \in safes \ moves_made
             ELSE ret' = None]_vars

C10_Witness ==
    /\ pc = "idle" /\ op = "make_safe_move"
    /\ ret # None /\ ret \in safes \ moves_made
    /\ moves_made # {}

\* C11: Sentence.mark_mine(c) and Sentence.mark_safe(c) with c not in the
\* cells of the Sentence change neither its cells nor its count, so a second
\* application of the same classification changes nothing; for every Sentence
\* of the knowledge list and every cell of the board.
C11_NoOpOutsideCells ==
    \A p \in 1 .. Len(knowledge) : \A c \in Cells :
        LET s == knowledge[p]
        IN  /\ c \notin s.cells =>
                  (SentenceMarkMine(s, c) = s /\ SentenceMarkSafe(s, c) = s)
            /\ SentenceMarkMine(SentenceMarkMine(s, c), c) = SentenceMarkMine(s, c)
            /\ SentenceMarkSafe(SentenceMarkSafe(s, c), c) = SentenceMarkSafe(s, c)

C11_Witness ==
    /\ pc = "mark" /\ kind = "mine" /\ temp # {}
    /\ \E p \in 1 .. Len(knowledge) :
          knowledge[p].cells # {} /\ knowledge[p].cells \cap temp = {}

\* C12: right after MinesweeperAI.mark_mine(c) the cell c is in mines, not in
\* safes and in the cells of no Sentence of the knowledge list; right after
\* MinesweeperAI.mark_safe(c) it is in safes, not in mines and in the cells of
\* no Sentence.  (The mark_safe of add_knowledge is observed after the new
\* Sentence, which never holds c, has been appended.)
C12_MarkPost ==
    [][/\ (pc = "mark" /\ kind = "mine" /\ temp' # temp) =>
              \A c \in temp \ temp' :
                  /\ c \in mines' /\ c \notin safes'
                  /\ \A p \in 1 .. Len(knowledge') : c \notin knowledge'[p].cells
       /\ (pc = "mark" /\ kind = "safe" /\ temp' # temp) =>
              \A c \in temp \ temp' :
                  /\ c \in safes' /\ c \notin mines'
                  /\ \A p \in 1 .. Len(knowledge') : c \notin knowledge'[p].cells
       /\ (pc = "idle" /\ pc' = "check") =>
              /\ lastCell' \in safes' /\ lastCell' \notin mines'
              /\ \A p \in 1 .. Len(knowledge') : lastCell' \notin knowledge'[p].cells
      ]_vars

C12_Witness ==
    /\ pc = "mark" /\ kind = "mine" /\ temp = {}
    /\ Cardinality(mines) >= 2 /\ Len(knowledge) >= 2
    /\ safes \ moves_made # {}

\* C13: moves_made, safes and mines only grow: every step of every call
\* leaves each of them a superset of its previous value.
C13_Monotone ==
    [][/\ moves_made \subseteq moves_made'
       /\ safes \subseteq safes'
       /\ mines \subseteq mines']_vars

C13_Witness ==
    /\ pc = "idle" /\ calls = 2
    /\ Cardinality(moves_made) = 2
    /\ Cardinality(mines) >= 2 /\ safes \ moves_made # {}

\* C14: conclud(A, B) appends a Sentence exactly when B.cells is not empty and
\* is a subset of A.cells; the appended Sentence has cells B.cells - A.cells,
\* which is empty, and count B.count - A.count.  For {(0,0),(0,1),(0,2)} = 1
\* and {(0,0),(0,1)} = 1 the appended Sentence is the empty set with count 0.
C14_Conclud ==
    [][/\ pc = "conclud" =>
              LET A == knowledge[i]
                  B == knowledge[j]
              IN  IF B.cells # {} /\ B.cells \subseteq A.cells
                  THEN /\ knowledge' =
                              Append(knowledge, [cells |-> B.cells \ A.cells,
                                                 count |-> B.count - A.count])
                       /\ knowledge'[Len(knowledge')].cells = {}
                  ELSE knowledge' = knowledge
       /\ LET ex == << [cells |-> {<<0, 0>>, <<0, 1>>, <<0, 2>>}, count |-> 1],
                       [cells |-> {<<0, 0>>, <<0, 1>>}, count |-> 1] >>
          IN  conclud(ex, 1, 2) = Append(ex, [cells |-> {}, count |-> 0])
      ]_vars

C14_Witness ==
    /\ pc = "conclud"
    /\ \E pr \in applied : pr[1] # pr[2]
    /\ \E p \in 1 .. Len(knowledge) :
          knowledge[p].cells = {} /\ knowledge[p].count < 0

\* C15, as claimed: when a closure pass has ended, conclud has been applied to
\* every ordered pair of Sentences of the sorted collection.
C15_AllOrderedPairs ==
    pc = "clean" => \A a \in 1 .. n : \A b \in 1 .. n : <<a, b>> \in applied

\* C15, amended: when a closure pass has ended, conclud has been applied to
\* every pair (A, B) of the sorted collection in which B stands at the
\* position of A or after it (A with itself included), and to no pair in
\* which B stands before A.
C15_PairsFromIndex ==
    pc = "clean" =>
        /\ \A a \in 1 .. n : \A b \in a .. n : <<a, b>> \in applied
        /\ \A pr \in applied : pr[1] \in 1 .. n /\ pr[1] <= pr[2]

C15_Witness ==
    /\ pc = "clean" /\ n >= 2
    /\ <<1, 2>> \in applied /\ <<2, 2>> \in applied
    /\ \E pr \in applied : pr[2] > n

\* C16: if, when an add_knowledge call returns, a Sentence of the knowledge
\* list is not empty and has count 0 (or count = |cells|), then when the next
\* add_knowledge call returns every cell that Sentence had is in safes (or in
\* mines).  atCall is the knowledge list the running call was given, that is
\* the list the previous call returned; pc = "clean" with the iterator
\* exhausted is the state the running call returns from.
C16_ResolvedByNextCall ==
    (pc = "clean" /\ idx > Len(knowledge)) =>
        \A p \in 1 .. Len(atCall) :
            atCall[p].cells # {} =>
                /\ atCall[p].count = 0 => atCall[p].cells \subseteq safes
                /\ atCall[p].count = SentenceLen(atCall[p])
                      => atCall[p].cells \subseteq mines

C16_Witness ==
    /\ pc = "clean" /\ idx > Len(knowledge)
    /\ \E p \in 1 .. Len(atCall) :
          /\ atCall[p].cells # {}
          /\ atCall[p].count = 0
          /\ atCall[p].cells \subseteq safes

\* What one add_knowledge(cell, count) call adds to the list: exactly one
\* Sentence, whose cells are the in-bounds cells at row and column offsets in
\* {-1, 0, 1} from cell, cell excluded, and whose count is the count given;
\* the other Sentences are those of before the call.  The neighbourhood has 3
\* cells at a corner, 5 on an edge and 8 in the interior, on every board
\* (onAnyBoard) or on boards of at least 2 rows and 2 columns.
C17_Appends(onAnyBoard) ==
    (pc = "idle" /\ pc' = "check") =>
        LET cell == lastCell'
            nb == {c \in Cells : /\ c # cell
                                 /\ c[1] - cell[1] \in -1 .. 1
                                 /\ c[2] - cell[2] \in -1 .. 1}
            onRowEdge == cell[1] \in {0, height - 1}
            onColEdge == cell[2] \in {0, width - 1}
        IN  /\ Len(knowledge') = Len(knowledge) + 1
            /\ \E p \in 1 .. Len(knowledge') :
                  /\ knowledge'[p] = [cells |-> nb, count |-> nearby_mines(cell)]
                  /\ [q \in 1 .. Len(knowledge) |->
                         IF q < p THEN knowledge'[q] ELSE knowledge'[q + 1]]
                       = SortByLen(BroadcastSafe(knowledge, cell))
            /\ (onAnyBoard \/ (height >= 2 /\ width >= 2)) =>
                  Cardinality(nb) = IF onRowEdge /\ onColEdge THEN 3
                                    ELSE IF onRowEdge \/ onColEdge THEN 5
                                    ELSE 8

\* C17 as stated: the Sentence add_knowledge(cell, count) appends has exactly
\* the in-bounds neighbours of cell as its cells (3 at a corner, 5 on an edge,
\* 8 in the interior), unfiltered against moves_made, safes and mines, and the
\* count given.  Fails on a board of one row, where a corner has 1 neighbour.
C17_ObservationSentenceAnyBoard ==
    [][C17_Appends(TRUE)]_vars

\* C17, amended: the same, the sizes 3, 5 and 8 being those of a board with at
\* least 2 rows and 2 columns.
C17_ObservationSentence ==
    [][C17_Appends(FALSE)]_vars

C17_Witness ==
    /\ pc = "check" /\ i = 1
    /\ \E p \in 1 .. Len(knowledge) :
          /\ knowledge[p].cells =
                {c \in Cells : /\ c # lastCell
                               /\ c[1] - lastCell[1] \in -1 .. 1
                               /\ c[2] - lastCell[2] \in -1 .. 1}
          /\ knowledge[p].count = nearby_mines(lastCell)
          /\ knowledge[p].cells \cap moves_made # {}
          /\ knowledge[p].cells \cap mines # {}

\* the number of positions of the list k that hold a Sentence equal to s
Occurrences(k, s) == Cardinality({p \in 1 .. Len(k) : k[p] = s})

\* C18: after each add_knowledge call, safes, mines, moves_made and the
\* multiset of non-empty Sentences of the knowledge list are those of a
\* knowledge base given the same calls that runs add_knowledge with conclud
\* removed (shadow).
C18_ConcludInert ==
    Returned =>
        /\ moves_made = shadow.moves_made
        /\ safes = shadow.safes
        /\ mines = shadow.mines
        /\ \A p \in 1 .. Len(knowledge) :
              knowledge[p].cells # {} =>
                  Occurrences(knowledge, knowledge[p])
                      = Occurrences(shadow.knowledge, knowledge[p])
        /\ \A p \in 1 .. Len(shadow.knowledge) :
              shadow.knowledge[p].cells # {} =>
                  Occurrences(knowledge, shadow.knowledge[p])
                      = Occurrences(shadow.knowledge, shadow.knowledge[p])

C18_Witness ==
    /\ Returned /\ calls >= 2
    /\ knowledge # shadow.knowledge
    /\ \E p \in 1 .. Len(knowledge) : knowledge[p].cells # {}
    /\ mines # {}

\* C19: in every state, between calls and inside the closure pass, every
\* Sentence of the knowledge list with a non-empty cell set has as count the
\* number of mines of the board among its cells.
C19_TrueOfBoard ==
    \A p \in 1 .. Len(knowledge) :
        knowledge[p].cells # {} =>
            knowledge[p].count = Cardinality(knowledge[p].cells \cap board)

C19_Witness ==
    /\ pc \in {"mark", "conclud"}
    /\ calls >= 2
    /\ \E p \in 1 .. Len(knowledge) :
          /\ knowledge[p].cells # {}
          /\ knowledge[p].count > 0
          /\ knowledge[p].count < SentenceLen(knowledge[p])
    /\ \E p \in 1 .. Len(knowledge) :
          /\ knowledge[p].cells # {}
          /\ knowledge[p].cells \cap (safes \cup mines) # {}

\* C20: in every state after an add_knowledge call has returned, moves_made is
\* a subset of safes and the cell last passed to add_knowledge is in both.
C20_QueriedCellsSafe ==
    (Returned /\ calls > 0) =>
        /\ moves_made \subseteq safes
        /\ lastCell \in moves_made
        /\ lastCell \in safes

C20_Witness ==
    /\ Returned /\ calls = 2
    /\ Cardinality(moves_made) = 2
    /\ safes \ moves_made # {}
    /\ mines # {}

====
